---- MODULE Spec2Model ----
(***************************************************************************)
(* Model of the lane-assignment and counting engine of TrafficFlowAnalyzer *)
(* (src/traffic_flow.py): construction with load_lane_config, the frame    *)
(* loop of process_video, the per-track loop of process_frame, the overlay *)
(* drawn at the end of every frame, and save_results.                      *)
(*                                                                         *)
(* Pixel coordinates reported by the tracker are floats; a coordinate is   *)
(* held here as an integer number of half pixels, so 2*x stands for x.     *)
(***************************************************************************)
EXTENDS Integers, Sequences, FiniteSets, TLC

VARIABLES
    file,           \* content of lane_config.json on disk
    pc,             \* position of the session in __init__ / run_analysis
    err,            \* the exception that escaped, "" when none did
    lanes,          \* self.lanes
    target_size,    \* <<self.target_width, self.target_height>>
    lane_counts,    \* self.lane_counts
    counted_ids,    \* self.counted_ids
    output_data,    \* self.output_data
    fps,            \* self.fps
    frame_count,    \* frame_count of process_video
    remaining,      \* tracks of the current frame the track loop has not visited yet
    frame_ids,      \* identities of the current frame's tracks visited so far
    track,          \* loop variable `track` of process_frame
    lane_num,       \* local lane_num of process_frame
    csv,            \* content of output.csv on disk
    n_saves,        \* calls of save_results made so far
    hist,           \* observations made so far (kept by SpecScenario only)
    frame_size,     \* <<self.frame_width, self.frame_height>>
    results,        \* boxes the detector found in the resized frame
    box_i,          \* position of the loop over the boxes in results
    detections,     \* local detections of process_frame
    tracker_in      \* the list the last update_tracks call was given

vars == <<file, pc, err, lanes, target_size, lane_counts, counted_ids,
          output_data, fps, frame_count, remaining, frame_ids, track,
          lane_num, csv, n_saves, hist, frame_size, results, box_i,
          detections, tracker_in>>

\* The detection stage of process_frame, followed by SpecDetect only.
detect == <<frame_size, results, box_i, detections, tracker_in>>

(***************************************************************************)
(* Bounds of the model.                                                    *)
(***************************************************************************)
MaxFrames == 3
MaxTracks == 2
MaxSaves == 2
MaxBoxes == 2

(***************************************************************************)
(* Values.                                                                 *)
(***************************************************************************)
None == 0

NoTrack == [id |-> "", confirmed |-> FALSE, ltrb |-> <<0, 0, 0, 0>>]

\* The built-in lanes of __init__.
DefaultLanes ==
    << <<(<<100, 720>>), (<<500, 400>>)>>,
       <<(<<550, 720>>), (<<900, 400>>)>>,
       <<(<<950, 720>>), (<<1300, 400>>)>> >>

DefaultTargetSize == <<960, 540>>

InitLaneCounts == [n \in {1, 2, 3} |-> 0]

\* Lane sets a lane_config.json can hold besides the default one.
OverlapLanes ==
    << <<(<<100, 720>>), (<<700, 400>>)>>,
       <<(<<550, 720>>), (<<900, 400>>)>>,
       <<(<<950, 720>>), (<<1300, 400>>)>> >>

OneLane == << <<(<<100, 720>>), (<<500, 400>>)>> >>

FourLanes == DefaultLanes \o << <<(<<0, 720>>), (<<90, 400>>)>> >>

(***************************************************************************)
(* lane_config.json.  A file is absent, unparsable, or a JSON object that  *)
(* holds some of the keys load_lane_config reads.                          *)
(***************************************************************************)
AbsentFile ==
    [kind |-> "absent", keys |-> {}, lanes |-> <<>>, target_frame_size |-> <<>>]

CorruptFile ==
    [kind |-> "corrupt", keys |-> {}, lanes |-> <<>>, target_frame_size |-> <<>>]

JsonFile(ks, l, t) ==
    [kind |-> "json",
     keys |-> ks \cup {"description"},
     lanes |-> IF "lanes" \in ks THEN l ELSE <<>>,
     target_frame_size |-> IF "target_frame_size" \in ks THEN t ELSE <<>>]

\* Lane 1 given far corner first (x decreasing, y increasing from p1 to p2),
\* over ground that lane 2 covers as well.
SwappedLanes ==
    << <<(<<500, 400>>), (<<100, 720>>)>>,
       <<(<<100, 720>>), (<<900, 400>>)>>,
       <<(<<950, 720>>), (<<1300, 400>>)>> >>

FileLanes == {DefaultLanes, OverlapLanes, OneLane, FourLanes, SwappedLanes}

\* A well-formed size other than the default, one that is no pair, and one
\* with a zero width.
FileSizes == {<<1280, 720>>, <<960>>, <<0, 540>>}

ConfigFiles ==
    {AbsentFile, CorruptFile} \cup
    {JsonFile(ks, l, t) : ks \in SUBSET {"lanes", "target_frame_size"},
                          l \in FileLanes, t \in FileSizes}

\* A dump that writes the size as [height, width].
SavedConfigSwapped(ls, size) ==
    [kind |-> "json",
     keys |-> {"lanes", "description", "target_frame_size"},
     lanes |-> ls,
     target_frame_size |-> <<size[2], size[1]>>]

\* The object save_lane_config dumps.
SavedConfig(ls, size) ==
    [kind |-> "json",
     keys |-> {"lanes", "description", "target_frame_size"},
     lanes |-> ls,
     target_frame_size |-> size]

(***************************************************************************)
(* load_lane_config, lines 81-91: what the try block leaves in self.lanes   *)
(* and in self.target_width/height.  json.load fails on a corrupt file and *)
(* config["lanes"] on a missing key, both before any assignment; the       *)
(* unpacking of target_frame_size fails after self.lanes was assigned.     *)
(***************************************************************************)
LoadedLanes(f, cur) ==
    IF f.kind = "json" /\ "lanes" \in f.keys THEN f.lanes ELSE cur

LoadedSize(f, cur) ==
    IF /\ f.kind = "json"
       /\ "lanes" \in f.keys
       /\ "target_frame_size" \in f.keys
       /\ Len(f.target_frame_size) = 2
    THEN f.target_frame_size
    ELSE cur

\* Whether the except clause of load_lane_config ran.
LoadFailed(f) ==
    \/ f.kind = "corrupt"
    \/ /\ f.kind = "json"
       /\ \/ "lanes" \notin f.keys
          \/ /\ "target_frame_size" \in f.keys
             /\ Len(f.target_frame_size) # 2

(***************************************************************************)
(* save_lane_config, lines 68-77.  open(.., "w") or json.dump can fail;    *)
(* nothing in the method catches the error.                                *)
(***************************************************************************)
SaveOutcomes == {"ok", "open_fails", "dump_fails"}

FileAfterSave(outcome, old, ls, size) ==
    CASE outcome = "ok" -> SavedConfig(ls, size)
      [] outcome = "open_fails" -> old
      [] OTHER -> CorruptFile

(***************************************************************************)
(* State after lines 13-42 of __init__, before load_lane_config is called. *)
(***************************************************************************)
NoCsv == [written |-> FALSE, header |-> <<>>, rows |-> <<>>]

Init ==
    /\ file \in ConfigFiles
    /\ pc = "init"
    /\ err = ""
    /\ lanes = DefaultLanes
    /\ target_size = DefaultTargetSize
    /\ lane_counts = InitLaneCounts
    /\ counted_ids = {}
    /\ output_data = <<>>
    /\ fps = 0
    /\ frame_count = 0
    /\ remaining = 0
    /\ frame_ids = {}
    /\ track = NoTrack
    /\ lane_num = None
    /\ csv = NoCsv
    /\ n_saves = 0
    /\ hist = <<>>
    /\ frame_size = <<0, 0>>
    /\ results = <<>>
    /\ box_i = 1
    /\ detections = <<>>
    /\ tracker_in = <<>>

\* __init__ line 45: load_lane_config, and with no file its save_lane_config.
LoadLaneConfig ==
    /\ pc = "init"
    /\ IF file.kind = "absent"
       THEN \E outcome \in SaveOutcomes :
              /\ file' = FileAfterSave(outcome, file, lanes, target_size)
              /\ pc' = IF outcome = "ok" THEN "constructed" ELSE "ctor_raised"
              /\ err' = IF outcome = "ok" THEN "" ELSE "OSError: lane_config.json"
              /\ UNCHANGED <<lanes, target_size>>
       ELSE /\ lanes' = LoadedLanes(file, lanes)
            /\ target_size' = LoadedSize(file, target_size)
            /\ pc' = "constructed"
            /\ UNCHANGED <<file, err>>
    /\ UNCHANGED <<lane_counts, counted_ids, output_data, fps, frame_count,
                   remaining, frame_ids, track, lane_num, csv, n_saves>>

(***************************************************************************)
(* Inputs of the frame loop.                                               *)
(***************************************************************************)
\* Values cap.get(CAP_PROP_FPS) returns: 0 for a stream of unknown rate.
FpsValues == {0, 2}

TrackIds == {"A", "B"}

\* Boxes <<left, top, right, bottom>> the tracker reports, in half pixels.
TrackBoxes ==
    { <<520, 900, 680, 1100>>,      \* (260,450)-(340,550), midpoint (300,500)
      <<1100, 900, 1300, 1100>>,    \* (550,450)-(650,550), midpoint (600,500)
      <<520, 1400, 680, 1600>>,     \* (260,700)-(340,800), midpoint (300,750)
      <<180, 1400, 220, 1480>>,     \* (90,700)-(110,740),  midpoint (100,720)
      <<960, 760, 1040, 840>>,      \* (480,380)-(520,420), midpoint (500,400)
      <<60, 900, 140, 1100>>,       \* (30,450)-(70,550),   midpoint (50,500)
      <<199, 900, 201, 1100>>,      \* (99.5,450)-(100.5,550)
      <<-81, 900, 80, 1100>> }      \* (-40.5,450)-(40,550), partly off frame

Tracks == [id : TrackIds, confirmed : BOOLEAN, ltrb : TrackBoxes]

(***************************************************************************)
(* process_frame, lines 134-137: int() of each float coordinate (towards   *)
(* zero), then the floor of the half sum.                                  *)
(***************************************************************************)
ToInt(h) == IF h >= 0 THEN h \div 2 ELSE -((-h) \div 2)

Centroid(ltrb) ==
    <<(ToInt(ltrb[1]) + ToInt(ltrb[3])) \div 2,
      (ToInt(ltrb[2]) + ToInt(ltrb[4])) \div 2>>

(***************************************************************************)
(* is_vehicle_in_lane, lines 96-102.                                       *)
(***************************************************************************)
\* A containment test with exclusive bounds.
InLaneStrict(lane, cx, cy) ==
    /\ lane[1][1] < cx /\ cx < lane[2][1]
    /\ lane[1][2] > cy /\ cy > lane[2][2]

\* A containment test that puts the corners in order first.
InLaneSorted(lane, cx, cy) ==
    LET lo(a, b) == IF a <= b THEN a ELSE b
        hi(a, b) == IF a <= b THEN b ELSE a
    IN  /\ lo(lane[1][1], lane[2][1]) <= cx /\ cx <= hi(lane[1][1], lane[2][1])
        /\ lo(lane[1][2], lane[2][2]) <= cy /\ cy <= hi(lane[1][2], lane[2][2])

\* Line 100, for one lane <<p1, p2>>.
InLane(lane, cx, cy) ==
    /\ lane[1][1] <= cx /\ cx <= lane[2][1]
    /\ lane[1][2] >= cy /\ cy >= lane[2][2]

\* The enumerate loop from lane i on: the first lane that holds the point.
RECURSIVE ScanLanes(_, _, _, _)
ScanLanes(ls, i, cx, cy) ==
    IF i > Len(ls) THEN None
    ELSE IF InLane(ls[i], cx, cy) THEN i
    ELSE ScanLanes(ls, i + 1, cx, cy)

\* A scan that keeps the last lane holding the point instead of the first.
LastMatch(ls, cx, cy) ==
    LET M == {i \in 1 .. Len(ls) : InLane(ls[i], cx, cy)}
    IN  IF M = {} THEN None ELSE CHOOSE m \in M : \A k \in M : k <= m

is_vehicle_in_lane(ls, cx, cy) == ScanLanes(ls, 1, cx, cy)

\* A loop that skips no track.
IsConfirmedAlways(t) == TRUE

\* Line 131.
IsConfirmed(t) == t.confirmed

\* A test that forgets the lane.
ShouldCountAnywhere(ln, track_id, ids) == track_id \notin ids

\* A test that forgets the identities already counted.
ShouldCountNoDedup(ln, track_id, ids) == ln # None

\* Line 141.
ShouldCount(ln, track_id, ids) == ln # None /\ track_id \notin ids

\* Line 146: gmtime of the float quotient, printed as %H:%M:%S.
Timestamp(frame_number, rate) ==
    LET secs == frame_number \div rate
    IN  <<(secs \div 3600) % 24, (secs \div 60) % 60, secs % 60>>

\* An event that numbers the frames from 0.
EventZeroBased(track_id, ln, frame_number, rate) ==
    [VehicleID |-> track_id, Lane |-> ln, Frame |-> frame_number - 1,
     Timestamp |-> Timestamp(frame_number, rate)]

\* Lines 149-154.
Event(track_id, ln, frame_number, rate) ==
    [VehicleID |-> track_id, Lane |-> ln, Frame |-> frame_number,
     Timestamp |-> Timestamp(frame_number, rate)]

(***************************************************************************)
(* run_analysis, lines 271-288.  An exception of any step is printed and   *)
(* raised again: the session ends at pc = "raised".                        *)
(***************************************************************************)
\* Step 1, download_video (lines 47-66): the download can fail.
DownloadVideo ==
    /\ pc = "constructed"
    /\ \E ok \in BOOLEAN :
         /\ pc' = IF ok THEN "downloaded" ELSE "raised"
         /\ err' = IF ok THEN "" ELSE "DownloadError"
    /\ UNCHANGED <<file, lanes, target_size, lane_counts, counted_ids,
                   output_data, fps, frame_count, remaining, frame_ids,
                   track, lane_num,
                   csv, n_saves>>

\* process_video, lines 196-217: open the capture, read its properties.
OpenVideo ==
    /\ pc = "downloaded"
    /\ \E opened \in BOOLEAN :
         IF opened
         THEN /\ fps' \in FpsValues
              /\ frame_count' = 0
              /\ pc' = "loop"
              /\ err' = ""
         ELSE /\ pc' = "raised"
              /\ err' = "ValueError"
              /\ UNCHANGED <<fps, frame_count>>
    /\ UNCHANGED <<file, lanes, target_size, lane_counts, counted_ids,
                   output_data, remaining, frame_ids, track, lane_num, csv,
                   n_saves>>

\* Line 107: cv2.resize to a size with a zero dimension raises cv2.error.
ZeroDim(size) == \E k \in 1 .. Len(size) : size[k] = 0

\* A reader that skips every other index.
SkipFrameIndex(fc) == fc + 2

\* Line 224.
NextFrameIndex(fc) == fc + 1

\* Lines 220-227 and 107-127: a frame is read, frame_count goes up by one,
\* the frame is resized to the target size and the tracker returns n tracks,
\* each with an identity of its own.
ReadFrame(n) ==
    /\ pc = "loop"
    /\ frame_count < MaxFrames
    /\ n <= Cardinality(TrackIds)
    /\ frame_count' = NextFrameIndex(frame_count)
    /\ frame_ids' = {}
    /\ IF ZeroDim(target_size)
       THEN /\ pc' = "raised"
            /\ err' = "cv2.error"
            /\ UNCHANGED remaining
       ELSE /\ pc' = "tracks"
            /\ remaining' = n
            /\ UNCHANGED err
    /\ UNCHANGED <<file, lanes, target_size, lane_counts, counted_ids,
                   output_data, fps, track, lane_num, csv, n_saves>>

\* Lines 220-230: reading, detecting, tracking or writing a frame fails in
\* the library or the device, after frame_count went up.
FrameError ==
    /\ pc = "loop"
    /\ frame_count < MaxFrames
    /\ frame_count' = NextFrameIndex(frame_count)
    /\ pc' = "raised"
    /\ err' = "IOError"
    /\ UNCHANGED <<file, lanes, target_size, lane_counts, counted_ids,
                   output_data, fps, remaining, frame_ids, track, lane_num,
                   csv, n_saves>>

\* Lines 220-222 and 245-249: cap.read() reports the end of the video.
EndOfVideo ==
    /\ pc = "loop"
    /\ pc' = "processed"
    /\ UNCHANGED <<file, err, lanes, target_size, lane_counts, counted_ids,
                   output_data, fps, frame_count, remaining, frame_ids,
                   track, lane_num,
                   csv, n_saves>>

(***************************************************************************)
(* One pass of the loop over the tracks, lines 130-159, for track t.       *)
(* lane_counts[lane_num] += 1 raises KeyError for a lane without a counter *)
(* before anything is changed; frame_number / self.fps raises              *)
(* ZeroDivisionError after the count and the identity were stored and      *)
(* before the event is appended.                                           *)
(***************************************************************************)
\* Counters that never fail a lookup.
CounterAssumed(lc, ln) == FALSE

\* Line 142: reading a counter that does not exist raises KeyError.
MissingCounter(lc, ln) == ln \notin DOMAIN lc

\* Line 142.
Increment(lc, ln) == [lc EXCEPT ![ln] = @ + 1]

\* A memory of the last identity only.
RememberLast(ids, track_id) == {track_id}

\* Line 143.
Remember(ids, track_id) == ids \cup {track_id}

\* A log that grows at the front.
PrependEvent(log, e) == <<e>> \o log

\* Line 149.
AppendEvent(log, e) == Append(log, e)

Observe(t) ==
    /\ pc = "tracks"
    /\ remaining > 0
    /\ t.id \notin frame_ids
    /\ frame_ids' = frame_ids \cup {t.id}
    /\ track' = t
    /\ IF ~IsConfirmed(t)
       THEN /\ remaining' = remaining - 1
            /\ UNCHANGED <<pc, err, lane_counts, counted_ids, output_data,
                           lane_num>>
       ELSE LET c == Centroid(t.ltrb)
                ln == is_vehicle_in_lane(lanes, c[1], c[2])
            IN  /\ lane_num' = ln
                /\ IF ~ShouldCount(ln, t.id, counted_ids)
                   THEN /\ remaining' = remaining - 1
                        /\ UNCHANGED <<pc, err, lane_counts, counted_ids,
                                       output_data>>
                   ELSE IF MissingCounter(lane_counts, ln)
                   THEN /\ pc' = "raised"
                        /\ err' = "KeyError"
                        /\ UNCHANGED <<remaining, lane_counts, counted_ids,
                                       output_data>>
                   ELSE /\ lane_counts' = Increment(lane_counts, ln)
                        /\ counted_ids' = Remember(counted_ids, t.id)
                        /\ IF fps = 0
                           THEN /\ pc' = "raised"
                                /\ err' = "ZeroDivisionError"
                                /\ UNCHANGED <<remaining, output_data>>
                           ELSE /\ output_data' =
                                     AppendEvent(output_data,
                                                 Event(t.id, ln, frame_count, fps))
                                /\ remaining' = remaining - 1
                                /\ UNCHANGED <<pc, err>>
    /\ UNCHANGED <<file, lanes, target_size, fps, frame_count, csv, n_saves>>

(***************************************************************************)
(* draw_lanes_and_counts (lines 166-190) at the end of process_frame, then *)
(* the frame is written (line 230).  Line 176 reads lane_counts[lane_num]  *)
(* for every configured lane, line 185 reads the counters 1, 2 and 3.      *)
(***************************************************************************)
DrawReads(ls) == (1 .. Len(ls)) \cup {1, 2, 3}

\* A renderer that clears the counters it has drawn.
DrawAndClear ==
    /\ pc = "tracks"
    /\ remaining = 0
    /\ pc' = "loop"
    /\ err' = ""
    /\ lane_counts' = [n \in DOMAIN lane_counts |-> 0]
    /\ UNCHANGED <<file, lanes, target_size, counted_ids, output_data, fps,
                   frame_count, remaining, frame_ids, track, lane_num, csv,
                   n_saves>>

DrawLanesAndCounts ==
    /\ pc = "tracks"
    /\ remaining = 0
    /\ IF DrawReads(lanes) \subseteq DOMAIN lane_counts
       THEN pc' = "loop" /\ err' = ""
       ELSE pc' = "raised" /\ err' = "KeyError"
    /\ UNCHANGED <<file, lanes, target_size, lane_counts, counted_ids,
                   output_data, fps, frame_count, remaining, frame_ids,
                   track, lane_num,
                   csv, n_saves>>

(***************************************************************************)
(* save_results, lines 251-269: the event log goes to output.csv, then the *)
(* lane configuration is saved.                                            *)
(***************************************************************************)
\* DataFrame(output_data).to_csv("output.csv", index=False): the file is
\* written anew; an empty log has no columns.
Serialize(data) ==
    [written |-> TRUE,
     header |-> IF data = <<>> THEN <<>>
                ELSE <<"VehicleID", "Lane", "Frame", "Timestamp">>,
     rows |-> [i \in 1 .. Len(data) |->
                 <<data[i].VehicleID, data[i].Lane, data[i].Frame,
                   data[i].Timestamp>>]]

\* A write that opens output.csv for appending.
WriteCsvAppend(old, data) ==
    [written |-> TRUE,
     header |-> Serialize(data).header,
     rows |-> old.rows \o Serialize(data).rows]

WriteCsv(old, data) == Serialize(data)

SaveResultsBody ==
    \E csv_ok \in BOOLEAN, outcome \in SaveOutcomes :
      IF ~csv_ok
      THEN /\ pc' = "raised"
           /\ err' = "OSError: output.csv"
           /\ UNCHANGED <<csv, file>>
      ELSE /\ csv' = WriteCsv(csv, output_data)
           /\ file' = FileAfterSave(outcome, file, lanes, target_size)
           /\ pc' = IF outcome = "ok" THEN "done" ELSE "raised"
           /\ err' = IF outcome = "ok" THEN "" ELSE "OSError: lane_config.json"

\* A run that flushes twice.
SaveResultsTwice ==
    /\ pc = "processed"
    /\ n_saves' = n_saves + 2
    /\ SaveResultsBody
    /\ UNCHANGED <<lanes, target_size, lane_counts, counted_ids, output_data,
                   fps, frame_count, remaining, frame_ids, track, lane_num>>

\* Step 3 of run_analysis.
SaveResults ==
    /\ pc = "processed"
    /\ n_saves' = n_saves + 1
    /\ SaveResultsBody
    /\ UNCHANGED <<lanes, target_size, lane_counts, counted_ids, output_data,
                   fps, frame_count, remaining, frame_ids, track, lane_num>>

\* A further call of save_results on the analyzer after run_analysis returned.
SaveResultsAgain ==
    /\ pc = "done"
    /\ n_saves < MaxSaves
    /\ n_saves' = n_saves + 1
    /\ SaveResultsBody
    /\ UNCHANGED <<lanes, target_size, lane_counts, counted_ids, output_data,
                   fps, frame_count, remaining, frame_ids, track, lane_num>>

(***************************************************************************)
(* The session.  hist is written by SpecScenario only, the detection stage *)
(* is followed by SpecDetect only.                                         *)
(***************************************************************************)
Construct == LoadLaneConfig /\ UNCHANGED <<hist, detect>>

Download == DownloadVideo /\ UNCHANGED <<hist, detect>>

Open == OpenVideo /\ UNCHANGED <<hist, detect>>

Read(n) == ReadFrame(n) /\ UNCHANGED <<hist, detect>>

Finish == EndOfVideo /\ UNCHANGED <<hist, detect>>

AbortFrame == FrameError /\ UNCHANGED <<hist, detect>>

ObserveTrack(t) == Observe(t) /\ UNCHANGED <<hist, detect>>

Draw == DrawLanesAndCounts /\ UNCHANGED <<hist, detect>>

Save == SaveResults /\ UNCHANGED <<hist, detect>>

SaveAgain == SaveResultsAgain /\ UNCHANGED <<hist, detect>>

Next ==
    \/ Construct
    \/ Download
    \/ Open
    \/ \E n \in 0 .. MaxTracks : Read(n)
    \/ AbortFrame
    \/ Finish
    \/ \E t \in Tracks : ObserveTrack(t)
    \/ Draw
    \/ Save
    \/ SaveAgain

Spec == Init /\ [][Next]_vars

(***************************************************************************)
(* The session up to the end of process_video, with one track per frame    *)
(* and the observations kept: hist lists, in order, the frame index and    *)
(* the track of every pass of the track loop.                              *)
(***************************************************************************)
ReadOne == ReadFrame(1) /\ UNCHANGED <<hist, detect>>

ObserveLogged(t) ==
    /\ Observe(t)
    /\ hist' = Append(hist, [frame |-> frame_count, track |-> t])
    /\ UNCHANGED detect

NextScenario ==
    \/ Construct
    \/ Download
    \/ Open
    \/ ReadOne
    \/ Finish
    \/ \E t \in Tracks : ObserveLogged(t)
    \/ Draw

\* The analyzer is built with no usable lane_config.json.
InitScenario == Init /\ file.kind # "json"

SpecScenario == InitScenario /\ [][NextScenario]_vars

(***************************************************************************)
(* The detection stage of process_frame, lines 107-127, step by step: the  *)
(* frame is resized and given to the detector, every box of a vehicle      *)
(* class is scaled to the native frame and appended to detections, and the *)
(* list goes to the tracker.  A scaled coordinate v * (native / target) is *)
(* held as the fraction <<v * native, target>>.                            *)
(***************************************************************************)
\* Sizes cap.get reports for the video, lines 201-202.
FrameSizes == {<<1280, 720>>, <<1920, 540>>}

\* Boxes <<x1, y1, x2, y2>> of the detector, in the resized frame.
RefBoxes == {<<100, 200, 300, 400>>, <<480, 270, 600, 500>>}

Classes == {"car", "person"}

Boxes == [cls : Classes, xyxy : RefBoxes]

Results == UNION {[1 .. n -> Boxes] : n \in 0 .. MaxBoxes}

\* Line 117.
IsVehicle(box) == box.cls \in {"car", "truck", "bus", "motorbike"}

\* Lines 120-123, one coordinate.
Scaled(v, native, target) == <<v * native, target>>

\* A mapping that leaves the box in the coordinates of the resized frame.
Unscaled(xyxy, native, target) ==
    <<(<<xyxy[1], 1>>), (<<xyxy[2], 1>>), (<<xyxy[3], 1>>), (<<xyxy[4], 1>>)>>

\* Lines 119-124: x by frame_width / target_width, y by frame_height /
\* target_height.
ScaleToNative(xyxy, native, target) ==
    <<Scaled(xyxy[1], native[1], target[1]),
      Scaled(xyxy[2], native[2], target[2]),
      Scaled(xyxy[3], native[1], target[1]),
      Scaled(xyxy[4], native[2], target[2])>>

\* Lines 220-224 and 107-110: a frame is read, resized and detected.
DetectFrame(rs) ==
    /\ pc = "loop"
    /\ frame_count < MaxFrames
    /\ frame_count' = NextFrameIndex(frame_count)
    /\ IF ZeroDim(target_size)
       THEN /\ pc' = "raised"
            /\ err' = "cv2.error"
            /\ UNCHANGED <<results, box_i, detections>>
       ELSE /\ pc' = "detect"
            /\ results' = rs
            /\ box_i' = 1
            /\ detections' = <<>>
            /\ UNCHANGED err
    /\ UNCHANGED <<file, lanes, target_size, lane_counts, counted_ids,
                   output_data, fps, remaining, frame_ids, track, lane_num,
                   csv, n_saves, frame_size, tracker_in>>

\* Lines 113-124: one pass of the loop over the boxes.
ScaleBox ==
    /\ pc = "detect"
    /\ box_i <= Len(results)
    /\ box_i' = box_i + 1
    /\ detections' =
         IF IsVehicle(results[box_i])
         THEN Append(detections,
                     ScaleToNative(results[box_i].xyxy, frame_size, target_size))
         ELSE detections
    /\ UNCHANGED <<file, pc, err, lanes, target_size, lane_counts, counted_ids,
                   output_data, fps, frame_count, remaining, frame_ids, track,
                   lane_num, csv, n_saves, frame_size, results, tracker_in>>

\* Line 127: the tracker is given detections and returns n tracks.
UpdateTracks(n) ==
    /\ pc = "detect"
    /\ box_i > Len(results)
    /\ n <= Cardinality(TrackIds)
    /\ tracker_in' = detections
    /\ pc' = "tracks"
    /\ remaining' = n
    /\ frame_ids' = {}
    /\ UNCHANGED <<file, err, lanes, target_size, lane_counts, counted_ids,
                   output_data, fps, frame_count, track, lane_num, csv,
                   n_saves, frame_size, results, box_i, detections>>

\* process_video, lines 196-217, with the frame size read at lines 201-202.
OpenSized ==
    /\ OpenVideo
    /\ IF pc' = "loop" THEN frame_size' \in FrameSizes
                       ELSE UNCHANGED frame_size
    /\ UNCHANGED <<hist, results, box_i, detections, tracker_in>>

Detect(rs) == DetectFrame(rs) /\ UNCHANGED hist

Scale == ScaleBox /\ UNCHANGED hist

\* The tracker returns no track.
TrackNone == UpdateTracks(0) /\ UNCHANGED hist

NextDetect ==
    \/ Construct
    \/ Download
    \/ OpenSized
    \/ \E rs \in Results : Detect(rs)
    \/ Scale
    \/ TrackNone
    \/ Draw
    \/ Finish

\* The analyzer is built on the built-in lanes.
InitDetect == Init /\ LoadedLanes(file, DefaultLanes) = DefaultLanes

SpecDetect == InitDetect /\ [][NextDetect]_vars

(***************************************************************************)
(* Properties.                                                             *)
(***************************************************************************)
RECURSIVE SumOver(_, _)
SumOver(f, S) ==
    IF S = {} THEN 0
    ELSE LET k == CHOOSE k \in S : TRUE IN f[k] + SumOver(f, S \ {k})

\* Sum of all lane counts.
TotalCount(lc) == SumOver(lc, DOMAIN lc)

\* Indices of the events of a log that satisfy P.
EventsOf(log, id) == {i \in 1 .. Len(log) : log[i].VehicleID = id}

EventsIn(log, ln) == {i \in 1 .. Len(log) : log[i].Lane = ln}

\* The containment the specification words: x1 <= cx <= x2 and y1 >= cy >= y2.
Holds(x1, y1, x2, y2, cx, cy) ==
    x1 <= cx /\ cx <= x2 /\ y1 >= cy /\ cy >= y2

\* The configured lanes that hold the point, by index.
Matching(ls, cx, cy) ==
    {i \in 1 .. Len(ls) :
        Holds(ls[i][1][1], ls[i][1][2], ls[i][2][1], ls[i][2][2], cx, cy)}

Least(S) == CHOOSE m \in S : \A k \in S : m <= k

(***************************************************************************)
(* C1.  At-most-once counting: a pass of the track loop raises the total   *)
(* of lane_counts by at most one, and only for an identity that enters     *)
(* counted_ids in that pass; counted_ids never loses an identity; a pass   *)
(* for a track whose identity is already in counted_ids, whatever lane it  *)
(* is in, changes neither lane_counts nor output_data.                     *)
(***************************************************************************)
C1_AtMostOnce ==
    [][\A t \in Tracks :
         Observe(t) =>
           /\ counted_ids \subseteq counted_ids'
           /\ TotalCount(lane_counts') - TotalCount(lane_counts) \in {0, 1}
           /\ TotalCount(lane_counts') # TotalCount(lane_counts) =>
                t.id \notin counted_ids /\ t.id \in counted_ids'
           /\ t.id \in counted_ids =>
                lane_counts' = lane_counts /\ output_data' = output_data]_vars

\* A counted identity is seen again, confirmed, in another lane and a later frame.
C1_Witness ==
    /\ pc = "tracks"
    /\ track.confirmed
    /\ lane_num # None
    /\ \E i \in EventsOf(output_data, track.id) :
         /\ output_data[i].Lane # lane_num
         /\ output_data[i].Frame < frame_count

(***************************************************************************)
(* C3.  A pass of the track loop for a track that is not confirmed leaves  *)
(* lane_counts, counted_ids and output_data as they were.                  *)
(***************************************************************************)
C3_UnconfirmedIgnored ==
    [][\A t \in Tracks :
         (Observe(t) /\ ~t.confirmed) =>
           UNCHANGED <<lane_counts, counted_ids, output_data>>]_vars

\* An unconfirmed track, never counted, whose midpoint lies inside a lane.
C3_Witness ==
    /\ pc = "tracks"
    /\ track.id \in TrackIds
    /\ ~track.confirmed
    /\ track.id \notin counted_ids
    /\ Matching(lanes, Centroid(track.ltrb)[1], Centroid(track.ltrb)[2]) # {}

(***************************************************************************)
(* C4.  Lane containment: in the region (100,720)-(500,400) the point      *)
(* (300,500) is inside and (600,500) and (300,750) are outside; for the    *)
(* midpoint of every confirmed track observed, a lane holds it iff         *)
(* x1 <= cx <= x2 and y1 >= cy >= y2, and the lane number found is None    *)
(* iff no configured lane holds it, else the number of a lane holding it.  *)
(***************************************************************************)
C4_Containment ==
    /\ InLane(<<(<<100, 720>>), (<<500, 400>>)>>, 300, 500)
    /\ ~InLane(<<(<<100, 720>>), (<<500, 400>>)>>, 600, 500)
    /\ ~InLane(<<(<<100, 720>>), (<<500, 400>>)>>, 300, 750)
    /\ track.confirmed =>
         LET cx == Centroid(track.ltrb)[1]
             cy == Centroid(track.ltrb)[2]
         IN  /\ \A i \in 1 .. Len(lanes) :
                  InLane(lanes[i], cx, cy) <=> i \in Matching(lanes, cx, cy)
             /\ lane_num = None <=> Matching(lanes, cx, cy) = {}
             /\ lane_num # None => lane_num \in Matching(lanes, cx, cy)

\* A confirmed track whose midpoint is the corner p1 of lane 1 is in lane 1.
C4_Witness ==
    /\ track.confirmed
    /\ Centroid(track.ltrb) = <<100, 720>>
    /\ lanes[1][1] = <<100, 720>>
    /\ lane_num = 1

(***************************************************************************)
(* C5.  First match wins: when the midpoint of a confirmed track lies in   *)
(* one or more lanes, the lane number found is the least index among them, *)
(* no other lane's count changes, and a count or an event added in that    *)
(* pass goes to that lane.                                                 *)
(***************************************************************************)
C5_FirstMatchWins ==
    [][\A t \in Tracks :
         (Observe(t) /\ t.confirmed) =>
           LET c == Centroid(t.ltrb)
               M == Matching(lanes, c[1], c[2])
           IN  M # {} =>
                 /\ lane_num' = Least(M)
                 /\ \A i \in DOMAIN lane_counts \ {Least(M)} :
                      lane_counts'[i] = lane_counts[i]
                 /\ lane_counts' # lane_counts =>
                      lane_counts'[Least(M)] = lane_counts[Least(M)] + 1
                 /\ output_data' # output_data =>
                      /\ Len(output_data') = Len(output_data) + 1
                      /\ output_data'[Len(output_data')].Lane = Least(M)
                      /\ output_data'[Len(output_data')].VehicleID = t.id]_vars

\* A track inside two overlapping lanes was credited to the first of them.
C5_Witness ==
    /\ pc = "tracks"
    /\ track.confirmed
    /\ Cardinality(Matching(lanes, Centroid(track.ltrb)[1],
                            Centroid(track.ltrb)[2])) >= 2
    /\ lane_num = 1
    /\ output_data # <<>>
    /\ output_data[Len(output_data)].VehicleID = track.id
    /\ output_data[Len(output_data)].Lane = 1
    /\ output_data[Len(output_data)].Frame = frame_count
    /\ lane_counts[1] >= 1

(***************************************************************************)
(* C2.  An event is created exactly when an identity enters counted_ids:   *)
(* in every state the log has as many events as counted_ids has members    *)
(* and as the counts sum to, no identity has two events, and every lane's  *)
(* count is the number of events recorded for that lane.                   *)
(***************************************************************************)
C2_EventPerCount ==
    /\ Len(output_data) = Cardinality(counted_ids)
    /\ Len(output_data) = TotalCount(lane_counts)
    /\ \A id \in TrackIds : Cardinality(EventsOf(output_data, id)) <= 1
    /\ \A ln \in DOMAIN lane_counts :
         lane_counts[ln] = Cardinality(EventsIn(output_data, ln))

(***************************************************************************)
(* C6.  The end-to-end scenario on the built-in lanes: frame 1 observes A, *)
(* confirmed, midpoint (300,500); frame 2 observes A, confirmed, inside    *)
(* lane 2; frame 3 observes B, unconfirmed.  After frame 1, and after      *)
(* frames 2 and 3 as long as the observations follow the scenario, the     *)
(* counts are 1, 0, 0 and the log holds the one event (A, lane 1,          *)
(* frame 1).  "After" a frame: its track loop has visited every track.     *)
(***************************************************************************)
ScenarioStep(k, h) ==
    CASE k = 1 -> /\ h.frame = 1 /\ h.track.id = "A" /\ h.track.confirmed
                  /\ Centroid(h.track.ltrb) = <<300, 500>>
      [] k = 2 -> /\ h.frame = 2 /\ h.track.id = "A" /\ h.track.confirmed
                  /\ Centroid(h.track.ltrb) = <<600, 500>>
      [] k = 3 -> /\ h.frame = 3 /\ h.track.id = "B" /\ ~h.track.confirmed
      [] OTHER -> FALSE

FollowsScenario(h) == \A k \in 1 .. Len(h) : ScenarioStep(k, h[k])

C6_Scenario ==
    (/\ lanes = DefaultLanes
     /\ Len(hist) >= 1
     /\ FollowsScenario(hist)
     /\ remaining = 0) =>
        /\ lane_counts = [n \in {1, 2, 3} |-> IF n = 1 THEN 1 ELSE 0]
        /\ counted_ids = {"A"}
        /\ Len(output_data) = 1
        /\ output_data[1].VehicleID = "A"
        /\ output_data[1].Lane = 1
        /\ output_data[1].Frame = 1

\* All three frames of the scenario were observed.
C6_Witness ==
    /\ lanes = DefaultLanes
    /\ Len(hist) = 3
    /\ FollowsScenario(hist)
    /\ frame_count = 3
    /\ remaining = 0
    /\ lane_counts[1] = 1 /\ lane_counts[2] = 0 /\ lane_counts[3] = 0
    /\ Len(output_data) = 1

(***************************************************************************)
(* C7.  One counter per configured lane: once the analyzer is built, the   *)
(* keys of lane_counts are 1..N for the N configured lanes, and before the *)
(* first frame every counter is 0.                                         *)
(***************************************************************************)
C7_CounterPerLane ==
    pc \notin {"init", "ctor_raised"} =>
      /\ DOMAIN lane_counts = 1 .. Len(lanes)
      /\ pc = "constructed" => \A n \in DOMAIN lane_counts : lane_counts[n] = 0

(***************************************************************************)
(* C8.  Default fallback: when the file load_lane_config read was         *)
(* unparsable, without "lanes" or with a target_frame_size that is no      *)
(* pair, the analyzer built holds the three built-in lanes and the         *)
(* reference size 960x540.  (That no exception escapes the load of an      *)
(* absent file is the statement of C9.)                                    *)
(***************************************************************************)
C8_DefaultFallback ==
    (pc = "constructed" /\ LoadFailed(file)) =>
       lanes = DefaultLanes /\ target_size = DefaultTargetSize

(***************************************************************************)
(* C9.  No error of save_lane_config reaches its caller, neither from      *)
(* load_lane_config during construction nor from save_results.             *)
(***************************************************************************)
C9_SaveNeverRaises ==
    ~(pc \in {"ctor_raised", "raised"} /\ err = "OSError: lane_config.json")

(***************************************************************************)
(* C10.  Idempotent flush: output.csv written by save_results lists the    *)
(* events of output_data, each once and in order, and a second call of     *)
(* save_results leaves output.csv as the first call wrote it and           *)
(* output_data, lane_counts and counted_ids as they were.                  *)
(***************************************************************************)
C10_IdempotentFlush ==
    [][pc = "done" =>
         /\ csv.written
         /\ Len(csv.rows) = Len(output_data)
         /\ \A i \in 1 .. Len(output_data) :
              csv.rows[i] = <<output_data[i].VehicleID, output_data[i].Lane,
                              output_data[i].Frame, output_data[i].Timestamp>>
         /\ csv' = csv
         /\ UNCHANGED <<output_data, lane_counts, counted_ids>>]_vars

\* save_results returned twice with events in the log.
C10_Witness ==
    /\ pc = "done"
    /\ n_saves = 2
    /\ Len(output_data) = 2
    /\ Len(csv.rows) = 2

\* The rows a log is flushed to, in the order of the log.
RowsOf(log) ==
    [i \in 1 .. Len(log) |->
       <<log[i].VehicleID, log[i].Lane, log[i].Frame, log[i].Timestamp>>]

(***************************************************************************)
(* C11.  The event log is append-only: every step leaves the entries of    *)
(* output_data in place (the old log is a prefix of the new one), a step   *)
(* adds at most one entry, at the end and only in a pass of the track      *)
(* loop, and output.csv, once written, lists the events in log order.      *)
(***************************************************************************)
C11_AppendOnly ==
    [][/\ Len(output_data') >= Len(output_data)
       /\ Len(output_data') <= Len(output_data) + 1
       /\ SubSeq(output_data', 1, Len(output_data)) = output_data
       /\ output_data' # output_data => \E t \in Tracks : Observe(t)
       /\ csv'.written => csv'.rows = RowsOf(output_data')]_vars

\* Two events of different vehicles were logged and flushed by the run.
C11_Witness ==
    /\ pc = "done"
    /\ n_saves = 1
    /\ Len(output_data) = 2
    /\ output_data[1].VehicleID # output_data[2].VehicleID
    /\ csv.rows = RowsOf(output_data)

(***************************************************************************)
(* C12.  Rendering does not affect counting: draw_lanes_and_counts leaves  *)
(* lane_counts, counted_ids and output_data as they were.                  *)
(***************************************************************************)
C12_RenderingPure ==
    [][DrawLanesAndCounts =>
         UNCHANGED <<lane_counts, counted_ids, output_data>>]_vars

\* A frame with a counted vehicle has been drawn.
C12_Witness ==
    /\ pc = "loop"
    /\ frame_count >= 1
    /\ TotalCount(lane_counts) >= 1
    /\ counted_ids # {}
    /\ output_data # <<>>

(***************************************************************************)
(* C13.  A target frame size with a zero dimension is rejected when the    *)
(* analyzer is built: the constructor raises, and no frame is ever read.   *)
(***************************************************************************)
C13_ZeroSizeRejected ==
    ZeroDim(target_size) =>
      /\ pc \in {"init", "ctor_raised"}
      /\ frame_count = 0

(***************************************************************************)
(* C14.  A run that is aborted after a frame was processed and an event    *)
(* recorded still flushes: at the abort, save_results has been called.     *)
(* pc = "raised" is the end of run_analysis.                               *)
(***************************************************************************)
C14_FlushOnAbort ==
    (/\ pc = "raised"
     /\ frame_count >= 2
     /\ output_data # <<>>) => n_saves >= 1

(***************************************************************************)
(* C15.  A lane number without a counter is fatal: a pass of the track     *)
(* loop for a confirmed track whose midpoint is in a lane that has no      *)
(* counter raises KeyError and ends run_analysis, records no event and     *)
(* marks no identity.                                                      *)
(***************************************************************************)
C15_MissingCounterFatal ==
    [][\A t \in Tracks :
         (/\ Observe(t)
          /\ t.confirmed
          /\ LET c == Centroid(t.ltrb)
             IN  /\ Matching(lanes, c[1], c[2]) # {}
                 /\ Least(Matching(lanes, c[1], c[2])) \notin DOMAIN lane_counts)
         => /\ pc' = "raised"
            /\ err' = "KeyError"
            /\ UNCHANGED <<lane_counts, counted_ids, output_data, n_saves>>]_vars

\* The track loop stopped at a track in lane 4, with tracks left to visit.
C15_Witness ==
    /\ pc = "raised"
    /\ err = "KeyError"
    /\ remaining > 0
    /\ track.confirmed
    /\ lane_num = 4
    /\ lane_num \notin DOMAIN lane_counts
    /\ track.id \notin counted_ids
    /\ EventsOf(output_data, track.id) = {}

(***************************************************************************)
(* C16.  Every lane count starts at 0 and never goes down: no step of the  *)
(* session (observe, render, flush, save of the configuration) lowers a    *)
(* count or removes a counter, a step raises the total by at most 1, and   *)
(* counted_ids never loses a member.                                       *)
(***************************************************************************)
C16_Monotone ==
    [][/\ pc \in {"init", "constructed"} =>
            \A n \in DOMAIN lane_counts : lane_counts[n] = 0
       /\ DOMAIN lane_counts \subseteq DOMAIN lane_counts'
       /\ \A n \in DOMAIN lane_counts : lane_counts'[n] >= lane_counts[n]
       /\ TotalCount(lane_counts') <= TotalCount(lane_counts) + 1
       /\ counted_ids \subseteq counted_ids']_vars

\* Two vehicles were counted, drawn and flushed.
C16_Witness ==
    /\ pc = "done"
    /\ TotalCount(lane_counts) = 2
    /\ counted_ids = TrackIds

(***************************************************************************)
(* C17.  A lane whose corners have x1 > x2 or y1 < y2 holds no midpoint:   *)
(* it is never the lane found, its count stays 0 and it has no event; the  *)
(* lane found for a confirmed track is the first correctly ordered lane    *)
(* whose rectangle covers the midpoint, so a misordered lane before it     *)
(* does not shadow it; and the lanes loaded stay as the file gave them.    *)
(***************************************************************************)
Misordered(lane) == lane[1][1] > lane[2][1] \/ lane[1][2] < lane[2][2]

\* The ordered lanes whose rectangle covers the point.
OrderedCovering(ls, cx, cy) ==
    {i \in 1 .. Len(ls) : ~Misordered(ls[i]) /\ InLaneSorted(ls[i], cx, cy)}

C17_MisorderedNeverMatches ==
    /\ \A i \in 1 .. Len(lanes) :
         Misordered(lanes[i]) =>
           /\ \A b \in TrackBoxes :
                ~InLane(lanes[i], Centroid(b)[1], Centroid(b)[2])
           /\ lane_num # i
           /\ i \in DOMAIN lane_counts => lane_counts[i] = 0
           /\ EventsIn(output_data, i) = {}
    /\ track.confirmed =>
         LET W == OrderedCovering(lanes, Centroid(track.ltrb)[1],
                                  Centroid(track.ltrb)[2])
         IN  lane_num = IF W = {} THEN None ELSE Least(W)
    /\ (pc # "init" /\ file.kind = "json" /\ "lanes" \in file.keys) =>
         lanes = file.lanes

\* A vehicle on ground that misordered lane 1 and lane 2 both span went to lane 2.
C17_Witness ==
    /\ Misordered(lanes[1])
    /\ track.confirmed
    /\ InLaneSorted(lanes[1], Centroid(track.ltrb)[1], Centroid(track.ltrb)[2])
    /\ lane_num = 2
    /\ lane_counts[1] = 0
    /\ lane_counts[2] = 1
    /\ output_data # <<>>
    /\ output_data[Len(output_data)].Lane = 2

(***************************************************************************)
(* C18.  A pass of the track loop for a confirmed track whose midpoint is  *)
(* in no lane changes no counting state, marks no identity and lets the    *)
(* loop go on.  At the first confirmed pass of an identity inside a lane,  *)
(* however often it was seen outside before, the identity is not yet       *)
(* counted and becomes counted, the count of that lane goes up by one and  *)
(* the event logged carries that lane and the frame index of that pass     *)
(* (the event is missing only when the timestamp division raised); later   *)
(* passes of the identity change nothing.                                  *)
(***************************************************************************)
LaneOf(t) ==
    is_vehicle_in_lane(lanes, Centroid(t.ltrb)[1], Centroid(t.ltrb)[2])

\* The identity was observed before, confirmed and inside a lane.
SeenInLane(h, id) ==
    \E k \in 1 .. Len(h) :
      /\ h[k].track.id = id
      /\ h[k].track.confirmed
      /\ LaneOf(h[k].track) # None

C18_FirstInLane ==
    [][\A t \in Tracks :
         (ObserveLogged(t) /\ t.confirmed) =>
           /\ LaneOf(t) = None =>
                /\ UNCHANGED <<lane_counts, counted_ids, output_data>>
                /\ pc' = "tracks"
           /\ (LaneOf(t) # None /\ ~SeenInLane(hist, t.id)) =>
                /\ t.id \notin counted_ids
                /\ counted_ids' = counted_ids \cup {t.id}
                /\ lane_counts' =
                     [lane_counts EXCEPT ![LaneOf(t)] = @ + 1]
                /\ Len(output_data') = Len(output_data) + 1
                     \/ (output_data' = output_data
                         /\ err' = "ZeroDivisionError")
                /\ output_data' # output_data =>
                     LET e == output_data'[Len(output_data')]
                     IN  /\ e.VehicleID = t.id
                         /\ e.Lane = LaneOf(t)
                         /\ e.Frame = frame_count
           /\ SeenInLane(hist, t.id) =>
                UNCHANGED <<lane_counts, counted_ids, output_data>>]_vars

\* A was seen twice outside every lane and counted in frame 3, inside lane 2.
C18_Witness ==
    /\ Len(hist) = 3
    /\ \A k \in 1 .. 3 : hist[k].track.id = "A" /\ hist[k].track.confirmed
    /\ LaneOf(hist[1].track) = None
    /\ LaneOf(hist[2].track) = None
    /\ LaneOf(hist[3].track) = 2
    /\ counted_ids = {"A"}
    /\ lane_counts[2] = 1
    /\ Len(output_data) = 1
    /\ output_data[1].Lane = 2
    /\ output_data[1].Frame = 3

(***************************************************************************)
(* C19.  Frames are processed one after the other: frame_count is 0 when   *)
(* the loop starts and goes up by exactly 1 for each frame read, and only  *)
(* between frames, when every track of the frame before has been visited;  *)
(* an event carries the index of the frame being processed, and the Frame  *)
(* values of the log never go down.                                        *)
(***************************************************************************)
C19_Sequential ==
    [][/\ frame_count' \in {frame_count, frame_count + 1}
       /\ frame_count' # frame_count => pc = "loop" /\ remaining = 0
       /\ (pc = "loop" /\ pc' = "tracks") => frame_count' = frame_count + 1
       /\ (pc = "downloaded" /\ pc' = "loop") => frame_count' = 0
       /\ pc = "tracks" => frame_count >= 1 /\ frame_count' = frame_count
       /\ output_data' # output_data =>
            output_data'[Len(output_data')].Frame = frame_count
       /\ \A i, j \in 1 .. Len(output_data') :
            i <= j => output_data'[i].Frame <= output_data'[j].Frame]_vars

\* Events of two different frames are in the log, the later frame last.
C19_Witness ==
    /\ pc = "tracks"
    /\ frame_count = 3
    /\ Len(output_data) = 2
    /\ output_data[1].Frame = 1
    /\ output_data[2].Frame = 3

(***************************************************************************)
(* C20.  In a run of run_analysis without a failing step save_results is   *)
(* called exactly once, after the last frame: while the run downloads,     *)
(* opens and processes frames no call has been made, the call is made from *)
(* the end of process_video, and the run returns with one call made.       *)
(***************************************************************************)
C20_FlushOnce ==
    [][/\ pc \in {"init", "constructed", "downloaded", "loop", "tracks",
                  "processed"} => n_saves = 0
       /\ (n_saves = 0 /\ n_saves' # 0) => pc = "processed"
       /\ (pc = "processed" /\ pc' = "done") => n_saves' = 1]_vars

\* The run returned after two frames or more, with the log flushed once.
C20_Witness ==
    /\ pc = "done"
    /\ n_saves = 1
    /\ frame_count >= 2
    /\ err = ""
    /\ csv.written

\* The whole seconds a timestamp <<hours, minutes, seconds>> stands for.
SecondsOf(ts) == ts[1] * 3600 + ts[2] * 60 + ts[3]

(***************************************************************************)
(* C21.  The timestamp of every event is the quotient of its frame index   *)
(* and the fps of the session, exactly: the seconds it stands for, times   *)
(* fps, give the frame index back.                                         *)
(***************************************************************************)
C21_TimestampExact ==
    \A i \in 1 .. Len(output_data) :
      SecondsOf(output_data[i].Timestamp) * fps = output_data[i].Frame

\* Floor of the midpoint of the box as reported; coordinates in half pixels.
FloorMidpoint(ltrb) ==
    <<(ltrb[1] + ltrb[3]) \div 4, (ltrb[2] + ltrb[4]) \div 4>>

(***************************************************************************)
(* C22.  The midpoint used for the lane test of a confirmed track is the   *)
(* floor of the midpoint of its box as the tracker reported it, whatever   *)
(* the sign and the fraction of the coordinates, and the lane found is the *)
(* lane of that point.                                                     *)
(***************************************************************************)
C22_CentroidFloor ==
    track.confirmed =>
      /\ Centroid(track.ltrb) = FloorMidpoint(track.ltrb)
      /\ lane_num = is_vehicle_in_lane(lanes, FloorMidpoint(track.ltrb)[1],
                                       FloorMidpoint(track.ltrb)[2])

(***************************************************************************)
(* C24.  Configuration round trip: loading what save_lane_config writes    *)
(* for the lanes and the size of the analyzer gives the same lanes, in     *)
(* order, and the same size, without a fallback; once the analyzer is      *)
(* built no step changes its lanes or its size; a save that writes the     *)
(* file writes exactly them, so a file that had lanes keeps them, a second *)
(* save_results leaves the file as the first wrote it, and the file of a   *)
(* finished run loads to the lanes and the size of that run.               *)
(***************************************************************************)
C24_RoundTrip ==
    [][/\ LoadedLanes(SavedConfig(lanes, target_size), DefaultLanes) = lanes
       /\ LoadedSize(SavedConfig(lanes, target_size), DefaultTargetSize)
            = target_size
       /\ ~LoadFailed(SavedConfig(lanes, target_size))
       /\ pc # "init" => lanes' = lanes /\ target_size' = target_size
       /\ (file' # file /\ file'.kind = "json") =>
            file' = SavedConfig(lanes', target_size')
       /\ (file.kind = "json" /\ "lanes" \in file.keys /\ file'.kind = "json")
            => file'.lanes = file.lanes
       /\ (pc = "done" /\ pc' = "done") => file' = file
       /\ pc' = "done" =>
            /\ LoadedLanes(file', DefaultLanes) = lanes'
            /\ LoadedSize(file', DefaultTargetSize) = target_size']_vars

\* A run on a file with lanes and a size of its own was saved twice.
C24_Witness ==
    /\ pc = "done"
    /\ n_saves = 2
    /\ lanes = SwappedLanes
    /\ target_size # DefaultTargetSize
    /\ ~ZeroDim(target_size)
    /\ frame_count >= 1
    /\ file = SavedConfig(lanes, target_size)

\* The boxes of a vehicle class among the first k of rs, in order.
VehiclesOf(rs, k) == SelectSeq(SubSeq(rs, 1, k), IsVehicle)

\* d is the box b with every coordinate multiplied once by native / target
\* of its axis.
ScaledOnce(d, b) ==
    \A j \in 1 .. 4 :
      LET axis == IF j % 2 = 1 THEN 1 ELSE 2
      IN  d[j][1] * target_size[axis] = b[j] * frame_size[axis] * d[j][2]

\* The list holds the vehicle boxes among the first k results, scaled once.
ScaledList(list, k) ==
    /\ Len(list) = Len(VehiclesOf(results, k))
    /\ \A i \in 1 .. Len(list) :
         ScaledOnce(list[i], VehiclesOf(results, k)[i].xyxy)

(***************************************************************************)
(* C23.  In process_frame every box of a vehicle class is scaled once, x   *)
(* by frame_width / target_width and y by frame_height / target_height,    *)
(* before the list is given to the tracker: detections holds the boxes     *)
(* visited so far, scaled once and in order; the tracker is called only    *)
(* after the last box, with that list; and what the tracker was given for  *)
(* the frame is every vehicle box of the frame scaled once.                *)
(***************************************************************************)
C23_ScaledOnceBeforeTracker ==
    [][/\ pc = "detect" => ScaledList(detections, box_i - 1)
       /\ tracker_in' # tracker_in =>
            /\ pc = "detect"
            /\ box_i > Len(results)
            /\ tracker_in' = detections
       /\ pc' = "tracks" => ScaledList(tracker_in', Len(results'))]_vars

\* The tracker got the one vehicle box of two boxes, scaled by 2 and by 1.
C23_Witness ==
    /\ pc = "tracks"
    /\ Len(results) = 2
    /\ Len(tracker_in) = 1
    /\ results[2].cls = "car"
    /\ frame_size[1] = 2 * target_size[1]
    /\ frame_size[2] = target_size[2]
    /\ tracker_in[1][1][1] = results[2].xyxy[1] * frame_size[1]

====
